---- MODULE Spec2Model ----
(***************************************************************************)
(* State-machine model of the EZShare SD card sync (ezshare_resmed.py):    *)
(* EZShare.run / recursive_traversal / list_dir / check_files /            *)
(* download_file / check_dirs, run against a remote directory tree served  *)
(* as HTML listings, mirroring it into a local file system.                *)
(***************************************************************************)
EXTENDS Integers, Sequences, FiniteSets, TLC

\* ------------------------------------------------------------------ bounds
\* How many times the program is launched against the same remote tree.
MaxRuns == 2
\* Length of every remote file body, in iter_content blocks.
MaxChunks == 2
\* Largest value of the --retries option that is explored (the default is 5).
MaxRetries == 2

\* --------------------------------------------------------- text -> time
\* Characters are one-character strings; a text is a sequence of them.
Digit == {"0", "1", "2", "3", "4", "5", "6", "7", "8", "9"}

DigitVal(c) ==
    CASE c = "0" -> 0 [] c = "1" -> 1 [] c = "2" -> 2 [] c = "3" -> 3
      [] c = "4" -> 4 [] c = "5" -> 5 [] c = "6" -> 6 [] c = "7" -> 7
      [] c = "8" -> 8 [] c = "9" -> 9

RECURSIVE Num(_)
\* int() of a run of digits.
Num(s) == IF s = <<>> THEN 0
          ELSE 10 * Num(SubSeq(s, 1, Len(s) - 1)) + DigitVal(s[Len(s)])

RECURSIVE Replace(_, _, _)
\* str.replace(a + ' ', a + '0'): every "a, space" pair, left to right.
Replace(s, a, i) ==
    IF i >= Len(s) THEN s
    ELSE IF s[i] = a /\ s[i + 1] = " "
         THEN Replace([s EXCEPT ![i + 1] = "0"], a, i + 2)
         ELSE Replace(s, a, i + 1)

\* The line taken as it is, blanks left in the date fields.
modifypart_unpadded(text) == text

\* parts[0].replace('- ', '-0').replace(': ', ':0')
modifypart(text) == Replace(Replace(text, "-", 1), ":", 1)

RECURSIVE RunEnd(_, _, _)
\* Index just past the longest run of characters of set cs starting at i.
RunEnd(s, cs, i) ==
    IF i <= Len(s) /\ s[i] \in cs THEN RunEnd(s, cs, i + 1) ELSE i

IsChar(s, i, c) == i <= Len(s) /\ s[i] = c

\* The match of \d*-\d*-\d*\s*\d*:\d*:\d* anchored at i: the six digit
\* fields and the width of the blank between date and time, or ok = FALSE.
MatchAt(s, i) ==
    LET j1 == RunEnd(s, Digit, i)
        j2 == RunEnd(s, Digit, j1 + 1)
        j3 == RunEnd(s, Digit, j2 + 1)
        j4 == RunEnd(s, {" "}, j3)
        j5 == RunEnd(s, Digit, j4)
        j6 == RunEnd(s, Digit, j5 + 1)
        j7 == RunEnd(s, Digit, j6 + 1)
    IN  IF IsChar(s, j1, "-") /\ IsChar(s, j2, "-")
           /\ IsChar(s, j5, ":") /\ IsChar(s, j6, ":")
        THEN [ok |-> TRUE,
              Y |-> SubSeq(s, i, j1 - 1), m |-> SubSeq(s, j1 + 1, j2 - 1),
              d |-> SubSeq(s, j2 + 1, j3 - 1), gap |-> j4 - j3,
              H |-> SubSeq(s, j4, j5 - 1), M |-> SubSeq(s, j5 + 1, j6 - 1),
              S |-> SubSeq(s, j6 + 1, j7 - 1)]
        ELSE [ok |-> FALSE]

\* re.search: the leftmost position at which the pattern matches.
regex_search(s) ==
    LET hits == {i \in 1..(Len(s) + 1) : MatchAt(s, i).ok}
    IN  IF hits = {} THEN [ok |-> FALSE]
        ELSE MatchAt(s, CHOOSE i \in hits : \A k \in hits : i <= k)

\* Seconds since the epoch of a local date and time.  Months are given 31
\* days, which keeps the order and the distinctness of valid dates.
mktime(Y, m, d, H, M, S) ==
    (((((Y - 1970) * 12 + (m - 1)) * 31 + (d - 1)) * 24 + H) * 60 + M) * 60 + S

OneOrTwo(f) == Len(f) \in {1, 2}

\* datetime.strptime(match, '%Y-%m-%d   %H:%M:%S').timestamp(); -1 stands
\* for the ValueError raised when the matched text does not fit the format.
strptime(f) ==
    IF /\ Len(f.Y) = 4 /\ OneOrTwo(f.m) /\ OneOrTwo(f.d) /\ f.gap >= 1
       /\ OneOrTwo(f.H) /\ OneOrTwo(f.M) /\ OneOrTwo(f.S)
       /\ Num(f.m) \in 1..12 /\ Num(f.d) \in 1..31
       /\ Num(f.H) \in 0..23 /\ Num(f.M) \in 0..59 /\ Num(f.S) \in 0..61
    THEN mktime(Num(f.Y), Num(f.m), Num(f.d), Num(f.H), Num(f.M), Num(f.S))
    ELSE -1

\* file_ts of one listing line: the parsed timestamp, 0 when none matches.
file_ts_of(text) ==
    LET match == regex_search(modifypart(text))
    IN  IF match.ok THEN strptime(match) ELSE 0

\* ------------------------------------------------------ the remote card
\* The text that precedes the link on a listing line, as the card prints
\* it: zero-padded, blank-padded, or with no date at all.
LinePlain == <<"2", "0", "2", "3", "-", "0", "8", "-", "1", "9", " ", " ", " ", "0", "8", ":", "3", "0", ":", "0", "0">>
LinePadded == <<"2", "0", "2", "3", "-", " ", "8", "-", "1", "9", " ", " ", " ", " ", "8", ":", "3", "0", ":", " ", "0">>
LineLater == <<"2", "0", "2", "3", "-", " ", "8", "-", "2", "0", " ", " ", " ", "1", "0", ":", " ", "5", ":", " ", "7">>
LineNoDate == <<" ", " ", " ", " ", " ", " ", " ", " ">>

\* What the card's file system holds for those lines: <<Y, m, d, H, M, S>>.
StampOf(line) ==
    CASE line = LinePlain -> <<2023, 8, 19, 8, 30, 0>>
      [] line = LinePadded -> <<2023, 8, 19, 8, 30, 0>>
      [] line = LineLater -> <<2023, 8, 20, 10, 5, 7>>
      [] OTHER -> <<>>

Epoch(t) == mktime(t[1], t[2], t[3], t[4], t[5], t[6])

\* One line of the <pre> block: the link text, the suffix of the href's
\* path, the href's target (the card-side path its query names: the file
\* to download, or the directory to list) and the text in front of the link.
Row(text, href, target, line) ==
    [text |-> text, href |-> href, target |-> target, line |-> line]

ROOT == <<>>
DATALOG == <<"DATALOG">>
Day1 == <<"DATALOG", "20230101">>
Day5 == <<"DATALOG", "20230105">>
Hidden == <<".fseventsd">>

\* The card: a DATALOG directory with two daily folders, the summary file
\* STR.EDF, the journal, navigation rows and a hidden entry.  lineS and
\* lineB are the date texts of STR.EDF and of the second day's file.
Card(lineS, lineB) ==
    (ROOT :> << Row(".", "dir", ROOT, LineNoDate),
                Row("DATALOG", "dir", DATALOG, LineNoDate),
                Row("JOURNAL.JNL", "download", <<"JOURNAL.JNL">>, LinePlain),
                Row("STR.EDF", "download", <<"STR.EDF">>, lineS),
                Row(".fseventsd", "dir", Hidden, LineNoDate),
                Row("back to photo", "photo", ROOT, LineNoDate) >>)
    @@ (DATALOG :> << Row("..", "dir", ROOT, LineNoDate),
                      Row("20230101", "dir", Day1, LineNoDate),
                      Row("20230105", "dir", Day5, LineNoDate) >>)
    @@ (Day1 :> << Row("", "none", ROOT, LineNoDate),
                   Row("A.EDF", "download", Day1 \o <<"A.EDF">>, LinePlain) >>)
    @@ (Day5 :> << Row("..", "dir", DATALOG, LineNoDate),
                   Row("B.EDF", "download", Day5 \o <<"B.EDF">>, lineB),
                   Row("C.EDF", "download", Day5 \o <<"C.EDF">>, LinePlain) >>)
    @@ (Hidden :> << >>)

\* Names of the model that begin with a dot (str.startswith('.')).
startswith_dot(name) == name \in {".", "..", ".fseventsd"}

\* ------------------------------------------------------------- the state
VARIABLES
    cfg,         \* the options main() hands to EZShare.__init__
    remote,      \* the card: directory path -> rows of its listing
    localFiles,  \* local path -> [mtime, body] of the regular files
    localDirs,   \* local paths that are directories
    stack,       \* frames of recursive_traversal, innermost last
    dl,          \* the download_file call in progress
    status,      \* "ready", "running", "done" (run returned), "raised"
    error,       \* the exception that ended the run and the request it is about
    runNo,       \* which launch of the program this is
    prevStatus,  \* how the previous launch ended ("" for the first)
    fsAtStart,   \* localFiles when this run started
    getLog,      \* the GET requests of this run, in order
    made,        \* directories this run created
    processed,   \* local paths download_file was called for in this run
    decision,    \* the last download_file call and what it decided
    wifi,        \* main(): disconnect_from_wifi calls made, process ended
    tcd,         \* the state of a transferCardData.py run
    gen          \* ezshare_generic.py: fetches that failed, error lines printed

vars == <<cfg, remote, localFiles, localDirs, stack, dl, status, error, runNo,
          prevStatus, fsAtStart, getLog, made, processed, decision, wifi, tcd,
          gen>>

\* The time of day of the machine that runs the sync: later than every
\* date on the card.
Now == mktime(2024, 1, 1, 0, 0, 0)
\* The modification time of a local copy left by a sync of last year.
Stale == mktime(2022, 12, 31, 23, 59, 59)

\* A file body: whose bytes it holds and how many blocks of them.
Body(of, blocks) == [of |-> of, blocks |-> blocks]
File(mtime, body) == [mtime |-> mtime, body |-> body]

\* fallback of the 'ignore' option (main), and one a user may set instead.
DefaultIgnore == {"JOURNAL.JNL", "ezshare.cfg", "System Volume Information"}
IgnoreChoices == {DefaultIgnore, {"JOURNAL.JNL", "STR.EDF"}}

\* --start_from as YYYYMMDD, 0 when neither it nor --day_count is given.
StartChoices == {0, 20230105}

\* strptime(name, '%Y%m%d') of the names of the model, 0 for a ValueError.
date_of(name) ==
    CASE name = "20230101" -> 20230101
      [] name = "20230105" -> 20230105
      [] OTHER -> 0

Idle == [phase |-> "idle"]
NoError == [type |-> ""]
NoDecision == [path |-> <<>>]
NoWifi == [disconnects |-> 0, exited |-> FALSE]
\* transferCardData.py is not the program that runs.
NoTcd == [pc |-> "none"]
NoGen == [failed |-> {}, printed |-> {}]

\* Local copies that an earlier sync may have left: none, or a stale one.
\* (Current copies are what a completed run leaves behind.)
LocalChoices(path) == {<< >>, path :> File(Stale, Body("stale", MaxChunks))}
\* The --path option names a regular file.
PathIsFile == ROOT :> File(Stale, Body("other", MaxChunks))

\* a is b or a directory above it (os.path).
IsPrefix(a, b) == Len(a) <= Len(b) /\ SubSeq(b, 1, Len(a)) = a

RECURSIVE Parents(_)
Parents(path) ==
    IF path = <<>> THEN {<<>>}
    ELSE LET up == SubSeq(path, 1, Len(path) - 1) IN {up} \cup Parents(up)

Init ==
    /\ \E o \in BOOLEAN, k \in BOOLEAN, ig \in IgnoreChoices, st \in StartChoices :
          cfg = [overwrite |-> o, keep_old |-> k, ignore |-> ig,
                 start_from |-> st, retries |-> MaxRetries]
    /\ \E lineS \in {LinePadded, LineNoDate} :
          remote = Card(lineS, LineLater)
    /\ \E ls \in LocalChoices(<<"STR.edf">>) \cup {PathIsFile} :
          /\ localFiles = ls
          /\ localDirs = UNION {Parents(p) : p \in DOMAIN ls \ {ROOT}}
    /\ stack = <<>>
    /\ dl = Idle
    /\ status = "ready"
    /\ error = NoError
    /\ runNo = 1
    /\ prevStatus = ""
    /\ fsAtStart = localFiles
    /\ getLog = <<>>
    /\ made = {}
    /\ processed = {}
    /\ decision = NoDecision
    /\ wifi = NoWifi
    /\ tcd = NoTcd
    /\ gen = NoGen

\* ------------------------------------------------------------ list_dir
\* self.ignore, as EZShare.__init__ builds it.
ignore_list(c) == {".", "..", "back to photo"} \cup c.ignore

\* The link text as the page has it.
link_text_as_listed(row) == row.text

\* The link text, with the rename Oscar expects.
link_text(row) == IF row.text = "STR.EDF" THEN "STR.edf" ELSE row.text

\* The rows list_dir keeps: those with a link that is neither ignored nor
\* hidden.
kept(row, c) ==
    /\ row.href # "none"
    /\ ~(link_text(row) \in ignore_list(c) \/ startswith_dot(link_text(row)))

\* (name, query, file_ts) of the rows whose href ends in 'download'.
files_of(rows, c) ==
    LET sel == SelectSeq(rows, LAMBDA r : kept(r, c) /\ r.href = "download")
    IN  [i \in 1..Len(sel) |->
            [name |-> link_text(sel[i]), query |-> sel[i].target,
             file_ts |-> file_ts_of(sel[i].line)]]

\* The directory links in the opposite order of the page.
dirs_of_reversed(rows, c) ==
    LET sel == SelectSeq(rows, LAMBDA r : kept(r, c) /\ r.href = "dir")
        n == Len(sel)
    IN  [i \in 1..n |-> [name |-> link_text(sel[n + 1 - i]),
                         href |-> sel[n + 1 - i].target]]

\* (name, href) of the rows whose href ends in 'dir'.
dirs_of(rows, c) ==
    LET sel == SelectSeq(rows, LAMBDA r : kept(r, c) /\ r.href = "dir")
    IN  [i \in 1..Len(sel) |-> [name |-> link_text(sel[i]), href |-> sel[i].target]]

\* strptime raises on some line of the page.
bad_date(rows) == \E i \in 1..Len(rows) : file_ts_of(rows[i].line) = -1

\* ------------------------------------------------------- download_file
\* The test with <= for <: a copy as old as the card's is fetched again.
should_download_not_older(overwrite, keep_old, already_exists, mtime, file_ts) ==
    (overwrite \/ mtime <= file_ts) /\ ~(already_exists /\ keep_old)

\* The test without its keep_old half.
should_download_no_keep_old(overwrite, keep_old, already_exists, mtime, file_ts) ==
    overwrite \/ mtime < file_ts

\* The test of line 536.
should_download(overwrite, keep_old, already_exists, mtime, file_ts) ==
    (overwrite \/ mtime < file_ts) /\ ~(already_exists /\ keep_old)

\* ------------------------------------------------------------ traversal
Frame(url, dir_path) ==
    [url |-> url, dir_path |-> dir_path, files |-> <<>>, dirs |-> <<>>,
     pc |-> "list_dir"]

top == stack[Len(stack)]
Running == status = "running" /\ stack # <<>>
SetTop(f) == [stack EXCEPT ![Len(stack)] = f]
Get(what, target) == [what |-> what, target |-> target]

\* An exception nothing catches: it unwinds the traversal and run().
Raise(e, what, target) ==
    /\ status' = "raised"
    /\ error' = [type |-> e, what |-> what, target |-> target]
    /\ stack' = <<>>
    /\ dl' = Idle

\* The answer at the prompt of run() is taken as 'continue'.
lower_is_c(response) == response \in {"c", "C"}

\* run() ends at the prompt: no connection, a terminal, and an answer
\* other than 'c' (lines 411-415).
cancelled(connected, isatty, response) ==
    ~connected /\ isatty /\ ~lower_is_c(response)

\* What wifi_connected, isatty and input may give run().
Responses == {"c", "C", "x", ""}

\* EZShare.run when it goes on after the connection check: create the
\* local root and start at the card's root.
run ==
    /\ status = "ready"
    /\ \E connected \in BOOLEAN, isatty \in BOOLEAN, response \in Responses :
          ~cancelled(connected, isatty, response)
    /\ ROOT \notin DOMAIN localFiles
    /\ status' = "running"
    /\ localDirs' = localDirs \cup {ROOT}
    /\ made' = {ROOT} \ localDirs
    /\ stack' = << Frame(ROOT, ROOT) >>
    /\ UNCHANGED <<gen, tcd, wifi, cfg, remote, localFiles, dl, error, runNo, prevStatus,
                   fsAtStart, getLog, processed, decision>>

\* EZShare.run when the user answers the prompt with another key:
\* sys.exit('Cancled'), before the local root is made or anything listed.
run_cancelled ==
    /\ status = "ready"
    /\ \E connected \in BOOLEAN, isatty \in BOOLEAN, response \in Responses :
          cancelled(connected, isatty, response)
    /\ Raise("SystemExit", "input", ROOT)
    /\ UNCHANGED <<gen, tcd, wifi, cfg, remote, localFiles, localDirs, runNo,
                   prevStatus, fsAtStart, getLog, made, processed, decision>>

\* EZShare.run when the path is a regular file: mkdir raises
\* FileExistsError and run() calls sys.exit (lines 420-423).
run_path_is_file ==
    /\ status = "ready"
    /\ \E connected \in BOOLEAN, isatty \in BOOLEAN, response \in Responses :
          ~cancelled(connected, isatty, response)
    /\ ROOT \in DOMAIN localFiles
    /\ Raise("SystemExit", "mkdir", ROOT)
    /\ UNCHANGED <<gen, tcd, wifi, cfg, remote, localFiles, localDirs, runNo,
                   prevStatus, fsAtStart, getLog, made, processed, decision>>

\* list_dir on a page with a <pre> block.
list_dir ==
    /\ Running /\ top.pc = "list_dir"
    /\ getLog' = Append(getLog, Get("dir", top.url))
    /\ IF bad_date(remote[top.url])
       THEN Raise("ValueError", "dir", top.url)
       ELSE /\ stack' = SetTop([top EXCEPT !.files = files_of(remote[top.url], cfg),
                                           !.dirs = dirs_of(remote[top.url], cfg),
                                           !.pc = "check_files"])
            /\ UNCHANGED <<status, error, dl>>
    /\ UNCHANGED <<gen, tcd, wifi, cfg, remote, localFiles, localDirs, runNo, prevStatus,
                   fsAtStart, made, processed, decision>>

\* list_dir on a page without a <pre> block: soup.find('pre') is None.
list_dir_no_pre ==
    /\ Running /\ top.pc = "list_dir"
    /\ getLog' = Append(getLog, Get("dir", top.url))
    /\ Raise("AttributeError", "dir", top.url)
    /\ UNCHANGED <<gen, tcd, wifi, cfg, remote, localFiles, localDirs, runNo, prevStatus,
                   fsAtStart, made, processed, decision>>

\* list_dir when requests.get fails or times out.
list_dir_unreachable ==
    /\ Running /\ top.pc = "list_dir"
    /\ getLog' = Append(getLog, Get("dir", top.url))
    /\ Raise("ConnectionError", "dir", top.url)
    /\ UNCHANGED <<gen, tcd, wifi, cfg, remote, localFiles, localDirs, runNo, prevStatus,
                   fsAtStart, made, processed, decision>>

\* check_files calls download_file for the next file: lines 532-536.
download_file ==
    /\ Running /\ top.pc = "check_files" /\ top.files # <<>> /\ dl.phase = "idle"
    /\ LET f == Head(top.files)
           file_path == top.dir_path \o <<f.name>>
           already_exists == file_path \in DOMAIN localFiles
           mtime == IF already_exists THEN localFiles[file_path].mtime ELSE 0
           fetch == should_download(cfg.overwrite, cfg.keep_old, already_exists,
                                    mtime, f.file_ts)
       IN  /\ stack' = SetTop([top EXCEPT !.files = Tail(top.files)])
           /\ processed' = processed \cup {file_path}
           /\ decision' = [path |-> file_path, query |-> f.query,
                           already_exists |-> already_exists, mtime |-> mtime,
                           file_ts |-> f.file_ts, fetch |-> fetch, retried |-> 0,
                           outcome |-> IF fetch THEN "pending" ELSE "skipped"]
           /\ dl' = IF fetch
                    THEN [phase |-> "get", url |-> f.query, file_path |-> file_path,
                          file_ts |-> f.file_ts, retried |-> 0]
                    ELSE Idle
    /\ UNCHANGED <<gen, tcd, wifi, cfg, remote, localFiles, localDirs, status, error, runNo,
                   prevStatus, fsAtStart, getLog, made>>

Downloading == status = "running" /\ dl.phase = "get"
\* getLog with the request of this call in it: it is logged when first
\* sent, the adapter's re-sends are counted in dl.retried.
sent == IF dl.retried = 0 THEN Append(getLog, Get("download", dl.url)) ELSE getLog
Writing == status = "running" /\ dl.phase = "write"

\* session.get answers 2xx; the file is opened 'wb', which creates or
\* empties it (lines 538-547).
session_get_ok ==
    /\ Downloading
    /\ getLog' = sent
    /\ localFiles' = (dl.file_path :> File(Now, Body("card", 0))) @@ localFiles
    /\ dl' = [dl EXCEPT !.phase = "write", !.retried = 0]
    /\ UNCHANGED <<gen, tcd, wifi, cfg, remote, localDirs, stack, status, error, runNo,
                   prevStatus, fsAtStart, made, processed, decision>>

\* session.get answers 4xx or 5xx: Retry has no status_forcelist, so the
\* response is returned at once and raise_for_status raises (line 539).
session_get_http_error ==
    /\ Downloading
    /\ getLog' = sent
    /\ decision' = [decision EXCEPT !.retried = dl.retried]
    /\ Raise("HTTPError", "download", dl.url)
    /\ UNCHANGED <<gen, tcd, wifi, cfg, remote, localFiles, localDirs, runNo, prevStatus,
                   fsAtStart, made, processed>>

\* The connection fails and the adapter's Retry(total=retries) has
\* attempts left: it sends the request again (lines 110-112).
session_get_retry ==
    /\ Downloading
    /\ dl.retried < cfg.retries
    /\ getLog' = sent
    /\ dl' = [dl EXCEPT !.retried = dl.retried + 1]
    /\ UNCHANGED <<gen, tcd, wifi, cfg, remote, localFiles, localDirs, stack, status, error,
                   runNo, prevStatus, fsAtStart, made, processed, decision>>

\* The connection fails and Retry is exhausted: session.get raises.
session_get_exhausted ==
    /\ Downloading
    /\ dl.retried >= cfg.retries
    /\ getLog' = sent
    /\ decision' = [decision EXCEPT !.retried = dl.retried]
    /\ Raise("ConnectionError", "download", dl.url)
    /\ UNCHANGED <<gen, tcd, wifi, cfg, remote, localFiles, localDirs, runNo, prevStatus,
                   fsAtStart, made, processed>>

blocks_written == localFiles[dl.file_path].body.blocks

\* The card stops answering while session.get(url, stream=True) waits for
\* the response or iter_content for the next block: the call has no
\* timeout argument, so it never returns (lines 538, 548).
session_get_blocks ==
    /\ \/ Downloading
       \/ Writing /\ blocks_written < MaxChunks
    /\ getLog' = IF dl.phase = "get" THEN sent ELSE getLog
    /\ dl' = [dl EXCEPT !.phase = "blocked"]
    /\ UNCHANGED <<gen, tcd, wifi, cfg, remote, localFiles, localDirs, stack, status,
                   error, runNo, prevStatus, fsAtStart, made, processed,
                   decision>>

\* fp.write(data) of one block of the response (lines 548-550).
write_block ==
    /\ Writing
    /\ blocks_written < MaxChunks
    /\ localFiles' = [localFiles EXCEPT ![dl.file_path] =
                         File(Now, Body("card", blocks_written + 1))]
    /\ UNCHANGED <<gen, tcd, wifi, cfg, remote, localDirs, stack, dl, status, error, runNo,
                   prevStatus, fsAtStart, getLog, made, processed, decision>>

\* The transfer stops before the last block: iter_content raises, or the
\* user interrupts the program.
transfer_interrupted ==
    /\ Writing
    /\ blocks_written < MaxChunks
    /\ Raise("ChunkedEncodingError", "download", dl.url)
    /\ UNCHANGED <<gen, tcd, wifi, cfg, remote, localFiles, localDirs, runNo, prevStatus,
                   fsAtStart, getLog, made, processed, decision>>

\* The body is complete: the file is closed and, when the line had a date,
\* os.utime sets its times (lines 551-559).
download_done ==
    /\ Writing
    /\ blocks_written = MaxChunks
    /\ localFiles' = IF dl.file_ts # 0
                     THEN [localFiles EXCEPT ![dl.file_path].mtime = dl.file_ts]
                     ELSE localFiles
    /\ decision' = [decision EXCEPT !.outcome = "written"]
    /\ dl' = Idle
    /\ UNCHANGED <<gen, tcd, wifi, cfg, remote, localDirs, stack, status, error, runNo,
                   prevStatus, fsAtStart, getLog, made, processed>>

\* check_files has gone through its list; check_dirs starts (line 437).
check_files_end ==
    /\ Running /\ top.pc = "check_files" /\ top.files = <<>> /\ dl.phase = "idle"
    /\ stack' = SetTop([top EXCEPT !.pc = "check_dirs"])
    /\ UNCHANGED <<gen, tcd, wifi, cfg, remote, localFiles, localDirs, dl, status, error, runNo,
                   prevStatus, fsAtStart, getLog, made, processed, decision>>

\* check_dirs takes the next directory: mkdir(exist_ok=True), then
\* recursive_traversal on it (lines 578-582).
check_dirs ==
    /\ Running /\ top.pc = "check_dirs" /\ top.dirs # <<>>
    /\ LET d == Head(top.dirs)
           new_dir_path == top.dir_path \o <<d.name>>
       IN  IF new_dir_path \in DOMAIN localFiles
           THEN /\ Raise("FileExistsError", "mkdir", new_dir_path)
                /\ UNCHANGED <<localDirs, made>>
           ELSE /\ localDirs' = localDirs \cup {new_dir_path}
                /\ made' = made \cup ({new_dir_path} \ localDirs)
                /\ stack' = Append(SetTop([top EXCEPT !.dirs = Tail(top.dirs)]),
                                   Frame(d.href, new_dir_path))
                /\ UNCHANGED <<dl, status, error>>
    /\ UNCHANGED <<gen, tcd, wifi, cfg, remote, localFiles, runNo, prevStatus, fsAtStart,
                   getLog, processed, decision>>

\* check_dirs has gone through its list: recursive_traversal returns, and
\* with the outermost call run() returns.
recursive_traversal_return ==
    /\ Running /\ top.pc = "check_dirs" /\ top.dirs = <<>>
    /\ stack' = SubSeq(stack, 1, Len(stack) - 1)
    /\ status' = IF Len(stack) = 1 THEN "done" ELSE status
    /\ UNCHANGED <<gen, tcd, wifi, cfg, remote, localFiles, localDirs, dl, error, runNo,
                   prevStatus, fsAtStart, getLog, made, processed, decision>>

\* Calls of disconnect_from_wifi main() makes once run() has ended with
\* status st, were the call placed after the try statement instead of in
\* its finally clause.
disconnects_after_return_only(st) == IF st = "done" THEN 1 ELSE 0

\* Calls of disconnect_from_wifi main() makes once run() has ended: the
\* finally clause runs whether run() returned or raised (lines 793-798).
disconnects_after(st) == 1

\* main() leaves the try statement and the process ends.
main_finally ==
    /\ status \in {"done", "raised"}
    /\ ~wifi.exited
    /\ wifi' = [disconnects |-> wifi.disconnects + disconnects_after(status),
                exited |-> TRUE]
    /\ UNCHANGED <<gen, tcd, cfg, remote, localFiles, localDirs, stack, dl, status,
                   error, runNo, prevStatus, fsAtStart, getLog, made,
                   processed, decision>>

\* The program has ended and is launched again, with the same options,
\* against the same card.
relaunch ==
    /\ status \in {"done", "raised"}
    /\ wifi.exited
    /\ wifi' = NoWifi
    /\ runNo < MaxRuns
    /\ runNo' = runNo + 1
    /\ prevStatus' = status
    /\ status' = "ready"
    /\ error' = NoError
    /\ fsAtStart' = localFiles
    /\ getLog' = <<>>
    /\ made' = {}
    /\ processed' = {}
    /\ decision' = NoDecision
    /\ UNCHANGED <<gen, tcd, cfg, remote, localFiles, localDirs, stack, dl>>

Next ==
    \/ run
    \/ run_cancelled
    \/ run_path_is_file
    \/ list_dir
    \/ list_dir_no_pre
    \/ list_dir_unreachable
    \/ download_file
    \/ session_get_ok
    \/ session_get_http_error
    \/ session_get_retry
    \/ session_get_exhausted
    \/ session_get_blocks
    \/ write_block
    \/ transfer_interrupted
    \/ download_done
    \/ check_files_end
    \/ check_dirs
    \/ recursive_traversal_return
    \/ main_finally
    \/ relaunch

Spec == Init /\ [][Next]_vars

\* ==================================================== ezshare_generic.py
\* The script without options: it walks the card from its root, fetches
\* every file and makes every directory.  It uses the variables of the
\* traversal above; cfg and the histories of a relaunch stay as they are.

\* The default of the retries parameter of download_file.
GenericRetries == 3

\* The link texts get_files_and_dirs leaves out.
generic_ignore == {".", "..", "System Volume Information", "back to photo"}

\* (link_text, query) of the links with 'download?file' in the href.
generic_files_of(rows) ==
    LET sel == SelectSeq(rows, LAMBDA r : r.href = "download"
                                          /\ r.text \notin generic_ignore)
    IN  [i \in 1..Len(sel) |-> [name |-> sel[i].text, query |-> sel[i].target]]

\* (link_text, href) of the links with 'dir?dir' in the href.
generic_dirs_of(rows) ==
    LET sel == SelectSeq(rows, LAMBDA r : r.href = "dir"
                                          /\ r.text \notin generic_ignore)
    IN  [i \in 1..Len(sel) |-> [name |-> sel[i].text, href |-> sel[i].target]]

\* root_path exists or not; nothing has been synced before.
GenericInit ==
    /\ cfg = [retries |-> GenericRetries]
    /\ remote = Card(LinePlain, LineLater)
    /\ localFiles = << >>
    /\ localDirs \in {{}, {ROOT}}
    /\ stack = <<>>
    /\ dl = Idle
    /\ status = "ready"
    /\ error = NoError
    /\ runNo = 1
    /\ prevStatus = ""
    /\ fsAtStart = << >>
    /\ getLog = <<>>
    /\ made = {}
    /\ processed = {}
    /\ decision = NoDecision
    /\ wifi = NoWifi
    /\ tcd = NoTcd
    /\ gen = NoGen

\* What the script never touches.
generic_frame ==
    UNCHANGED <<cfg, remote, runNo, prevStatus, fsAtStart, made, processed,
                decision, wifi, tcd>>

\* The execution block when connect_to_wifi returns False: exit(0).
generic_connect_failed ==
    /\ status = "ready"
    /\ status' = "done"
    /\ generic_frame
    /\ UNCHANGED <<localFiles, localDirs, stack, dl, error, getLog, gen>>

\* The execution block calls controller(root_url, root_path).
generic_controller ==
    /\ status = "ready"
    /\ status' = "running"
    /\ stack' = << Frame(ROOT, ROOT) >>
    /\ generic_frame
    /\ UNCHANGED <<localFiles, localDirs, dl, error, getLog, gen>>

\* get_files_and_dirs when the card answers with the listing.
generic_get_files_and_dirs ==
    /\ Running /\ top.pc = "list_dir"
    /\ getLog' = Append(getLog, Get("dir", top.url))
    /\ stack' = SetTop([top EXCEPT !.files = generic_files_of(remote[top.url]),
                                   !.dirs = generic_dirs_of(remote[top.url]),
                                   !.pc = "check_files"])
    /\ generic_frame
    /\ UNCHANGED <<localFiles, localDirs, dl, status, error, gen>>

\* get_files_and_dirs when the card answers 4xx or 5xx: the status is not
\* looked at, the error page has no links, both lists are empty.
generic_listing_error_status ==
    /\ Running /\ top.pc = "list_dir"
    /\ getLog' = Append(getLog, Get("dir", top.url))
    /\ stack' = SetTop([top EXCEPT !.pc = "check_files"])
    /\ gen' = [gen EXCEPT !.failed = @ \cup {Get("dir", top.url)}]
    /\ generic_frame
    /\ UNCHANGED <<localFiles, localDirs, dl, status, error>>

\* get_files_and_dirs when requests.get raises: nothing catches it.
generic_listing_unreachable ==
    /\ Running /\ top.pc = "list_dir"
    /\ getLog' = Append(getLog, Get("dir", top.url))
    /\ gen' = [gen EXCEPT !.failed = @ \cup {Get("dir", top.url)}]
    /\ Raise("ConnectionError", "dir", top.url)
    /\ generic_frame
    /\ UNCHANGED <<localFiles, localDirs>>

\* process_files calls download_file for the next file.
generic_download_file ==
    /\ Running /\ top.pc = "check_files" /\ top.files # <<>> /\ dl.phase = "idle"
    /\ LET f == Head(top.files)
       IN  /\ stack' = SetTop([top EXCEPT !.files = Tail(top.files)])
           /\ dl' = [phase |-> "get", url |-> f.query,
                     file_path |-> top.dir_path \o <<f.name>>, retried |-> 0]
           /\ getLog' = Append(getLog, Get("download", f.query))
    /\ generic_frame
    /\ UNCHANGED <<localFiles, localDirs, status, error, gen>>

\* open(filename, 'wb') and file.write(response.content): the body is
\* written whole, or open raises when the directory is missing.
generic_write(of) ==
    IF SubSeq(dl.file_path, 1, Len(dl.file_path) - 1) \in localDirs
    THEN /\ localFiles' = (dl.file_path :> File(Now, Body(of, MaxChunks)))
                              @@ localFiles
         /\ dl' = Idle
         /\ UNCHANGED <<stack, status, error>>
    ELSE /\ Raise("FileNotFoundError", "open", dl.file_path)
         /\ UNCHANGED localFiles

\* requests.get returns the file.
generic_get_ok ==
    /\ Downloading
    /\ generic_write("card")
    /\ generic_frame
    /\ UNCHANGED <<localDirs, getLog, gen>>

\* requests.get returns a 4xx or 5xx response: its body is written as the
\* file and 'completed (V)' is printed.
generic_get_error_status ==
    /\ Downloading
    /\ generic_write("error page")
    /\ gen' = [gen EXCEPT !.failed = @ \cup {Get("download", dl.url)}]
    /\ generic_frame
    /\ UNCHANGED <<localDirs, getLog>>

\* requests.get raises a RequestException and the loop has a round left:
\* the error line is printed and the request sent again.
generic_retry ==
    /\ Downloading
    /\ dl.retried + 1 < cfg.retries
    /\ dl' = [dl EXCEPT !.retried = dl.retried + 1]
    /\ gen' = [gen EXCEPT !.printed = @ \cup {Get("download", dl.url)}]
    /\ generic_frame
    /\ UNCHANGED <<localFiles, localDirs, stack, status, error, getLog>>

\* requests.get raises in the last round of the loop: the error line is
\* printed and download_file returns.
generic_give_up ==
    /\ Downloading
    /\ dl.retried + 1 >= cfg.retries
    /\ dl' = Idle
    /\ gen' = [failed |-> gen.failed \cup {Get("download", dl.url)},
               printed |-> gen.printed \cup {Get("download", dl.url)}]
    /\ generic_frame
    /\ UNCHANGED <<localFiles, localDirs, stack, status, error, getLog>>

\* process_files has gone through its list; process_dirs starts.
generic_process_files_end ==
    /\ Running /\ top.pc = "check_files" /\ top.files = <<>> /\ dl.phase = "idle"
    /\ stack' = SetTop([top EXCEPT !.pc = "check_dirs"])
    /\ generic_frame
    /\ UNCHANGED <<localFiles, localDirs, dl, status, error, getLog, gen>>

\* process_dirs takes the next directory: os.makedirs(exist_ok=True),
\* which also makes the missing directories above it, then controller.
generic_process_dirs ==
    /\ Running /\ top.pc = "check_dirs" /\ top.dirs # <<>>
    /\ LET d == Head(top.dirs)
           new_dir_path == top.dir_path \o <<d.name>>
       IN  /\ localDirs' = localDirs \cup {new_dir_path} \cup Parents(new_dir_path)
           /\ stack' = Append(SetTop([top EXCEPT !.dirs = Tail(top.dirs)]),
                              Frame(d.href, new_dir_path))
    /\ generic_frame
    /\ UNCHANGED <<localFiles, dl, status, error, getLog, gen>>

\* process_dirs has gone through its list: controller returns, and with
\* the outermost call the script ends.
generic_controller_return ==
    /\ Running /\ top.pc = "check_dirs" /\ top.dirs = <<>>
    /\ stack' = SubSeq(stack, 1, Len(stack) - 1)
    /\ status' = IF Len(stack) = 1 THEN "done" ELSE status
    /\ generic_frame
    /\ UNCHANGED <<localFiles, localDirs, dl, error, getLog, gen>>

GenericNext ==
    \/ generic_connect_failed
    \/ generic_controller
    \/ generic_get_files_and_dirs
    \/ generic_listing_error_status
    \/ generic_listing_unreachable
    \/ generic_download_file
    \/ generic_get_ok
    \/ generic_get_error_status
    \/ generic_retry
    \/ generic_give_up
    \/ generic_process_files_end
    \/ generic_process_dirs
    \/ generic_controller_return

GenericSpec == GenericInit /\ [][GenericNext]_vars

\* ==================================================== transferCardData.py
\* The script that fetches four fixed files and then the daily folders of
\* DATALOG, newest first, each folder's files in threads.  It uses
\* localFiles, localDirs, getLog, status and error of the traversal above;
\* in remote it has the number of .EDF links of each daily folder, and its
\* own position and threads in tcd.

\* START_DATE, the days to go back, in the runs of the model.
MaxDays == 2
\* The number of started threads at which download_datalog_files joins.
ThreadLimit == 4

\* The file names of the static_files list, as os.path.basename of what
\* follows '?file=' gives them.
StaticFiles == << "JOURNAL.JNL", "STR.EDF", "SETTINGS%5CCURREN~1.JSO",
                  "SETTINGS%5CCURREN~1.CRC" >>

\* strftime('%Y%m%d') of the day i days before today, and the names of the
\* files a daily folder links to.
DayNames == << "20230106", "20230105", "20230104" >>
EdfNames == << "1.EDF", "2.EDF", "3.EDF", "4.EDF", "5.EDF" >>
\* Links of a daily folder: none, fewer than the thread limit, the limit.
LinkCounts == {0, 1, ThreadLimit}

\* target_path of the folder i days back and file_path of its n-th link.
DayPath(i) == << "DATALOG", DayNames[i] >>
EdfPath(t) == DayPath(t[1]) \o << EdfNames[t[2]] >>

\* What a run may find below TARGET_DIR: no TARGET_DIR, an empty one, or
\* what a run of a week ago left.
TcdLocal ==
    { [files |-> << >>, dirs |-> {}],
      [files |-> << >>, dirs |-> {ROOT}],
      [files |-> [p \in {<<StaticFiles[k]>> : k \in 1..Len(StaticFiles)}
                      \cup {EdfPath(<<1, 1>>)}
                    |-> File(Stale, Body("stale", MaxChunks))],
       dirs |-> {ROOT, <<"DATALOG">>, DayPath(1)}] }

TcdStart == [pc |-> "static", k |-> 1, day |-> 0, links |-> 0, j |-> 0,
             files_downloaded |-> FALSE, batch |-> {}, threads |-> << >>,
             complete |-> {}, removed |-> {}, dirsAtStart |-> {},
             network |-> "card"]

\* start_date as the loop computes it, in days before today: from an
\* integer START_DATE it is the present moment less that many days, which
\* is past that day's midnight; from a YYYYMMDD string (or from the
\* earliest folder name, with "ALL") it is the midnight of that date.
StartDates == { [back |-> MaxDays, midnight |-> FALSE],
                [back |-> MaxDays - 1, midnight |-> TRUE] }

TcdInit ==
    /\ \E o \in BOOLEAN, e \in BOOLEAN, sd \in StartDates, n \in BOOLEAN :
          cfg = [overwrite |-> o, include_empty |-> e, start_date |-> sd,
                 use_network_switching |-> n]
    /\ remote \in [1..MaxDays -> LinkCounts]
    /\ \E l \in TcdLocal :
          /\ localFiles = l.files
          /\ localDirs = l.dirs
          /\ tcd = [TcdStart EXCEPT
                       !.dirsAtStart = l.dirs,
                       !.pc = IF cfg.use_network_switching THEN "connect"
                              ELSE "static",
                       !.network = IF cfg.use_network_switching THEN "default"
                                   ELSE "card"]
    /\ stack = <<>>
    /\ dl = Idle
    /\ status = "running"
    /\ error = NoError
    /\ runNo = 1
    /\ prevStatus = ""
    /\ fsAtStart = localFiles
    /\ getLog = <<>>
    /\ made = {}
    /\ processed = {}
    /\ decision = NoDecision
    /\ wifi = NoWifi
    /\ gen = NoGen

\* What the script never touches, and what a step that raises nothing
\* leaves alone.
tcd_frame ==
    UNCHANGED <<cfg, remote, runNo, prevStatus, fsAtStart, made, processed,
                decision, wifi, gen>>
tcd_goes_on == UNCHANGED <<stack, dl, status, error>>

\* The main thread is at pc and nothing has ended it.
TcdAt(pc) == status = "running" /\ tcd.pc = pc

\* The test of download_file (line 81).
tcd_fetches(target_path) == cfg.overwrite \/ target_path \notin DOMAIN localFiles

\* With USE_NETWORK_SWITCHING the script starts on the default network
\* and joins the card's: connect_to_wifi(EZSHARE_NETWORK) (lines 120-125).
\* Without it the user has joined the card's network by hand.
tcd_connect_to_wifi ==
    /\ TcdAt("connect")
    /\ tcd' = [tcd EXCEPT !.network = "card", !.pc = "static"]
    /\ tcd_frame /\ tcd_goes_on
    /\ UNCHANGED <<localFiles, localDirs, getLog>>

\* ---- the static files (lines 137-142)
StaticPath == << StaticFiles[tcd.k] >>
tcd_static_next ==
    [tcd EXCEPT !.k = tcd.k + 1,
                !.pc = IF tcd.k = Len(StaticFiles) THEN "dates" ELSE "static"]

\* download_file for a static file, in the main thread: requests.get,
\* open(target_path, 'wb') and the chunks.
tcd_static_download ==
    /\ TcdAt("static") /\ tcd_fetches(StaticPath)
    /\ ROOT \in localDirs
    /\ getLog' = Append(getLog, Get("download", StaticPath))
    /\ localFiles' = (StaticPath :> File(Now, Body("card", MaxChunks))) @@ localFiles
    /\ tcd' = tcd_static_next
    /\ tcd_frame /\ tcd_goes_on
    /\ UNCHANGED localDirs

\* download_file for a static file when TARGET_DIR does not exist: open
\* raises FileNotFoundError and the script ends.
tcd_static_no_directory ==
    /\ TcdAt("static") /\ tcd_fetches(StaticPath)
    /\ ROOT \notin localDirs
    /\ getLog' = Append(getLog, Get("download", StaticPath))
    /\ Raise("FileNotFoundError", "open", StaticPath)
    /\ tcd_frame
    /\ UNCHANGED <<localFiles, localDirs, tcd>>

\* download_file for a static file that exists, with
\* OVERWRITE_EXISTING_FILES off: nothing is done.
tcd_static_kept ==
    /\ TcdAt("static") /\ ~tcd_fetches(StaticPath)
    /\ tcd' = tcd_static_next
    /\ tcd_frame /\ tcd_goes_on
    /\ UNCHANGED <<localFiles, localDirs, getLog>>

\* ---- the loop over the dates (lines 166-185)
\* datetime.strptime(date_folder, '%Y%m%d') >= start_date for the
\* date_folder that is days back from today: its midnight is compared
\* with start_date.
not_before_start(days) ==
    \/ days < cfg.start_date.back
    \/ days = cfg.start_date.back /\ cfg.start_date.midnight

\* The loop test (line 166), made on date_folder before the loop body
\* steps it one day back.
tcd_in_range(days) == not_before_start(days)

\* The loop takes the day before date_folder; its folder exists and
\* OVERWRITE_EXISTING_FILES is off: 'Skipping directory...'.
tcd_skip_existing ==
    /\ TcdAt("dates") /\ tcd_in_range(tcd.day)
    /\ DayPath(tcd.day + 1) \in localDirs /\ ~cfg.overwrite
    /\ tcd' = [tcd EXCEPT !.day = tcd.day + 1]
    /\ tcd_frame /\ tcd_goes_on
    /\ UNCHANGED <<localFiles, localDirs, getLog>>

\* The loop takes the day before date_folder and create_directory makes
\* its folder, with the folders above it, unless it exists.
create_directory ==
    /\ TcdAt("dates") /\ tcd_in_range(tcd.day)
    /\ ~(DayPath(tcd.day + 1) \in localDirs /\ ~cfg.overwrite)
    /\ localDirs' = localDirs \cup {DayPath(tcd.day + 1)}
                        \cup Parents(DayPath(tcd.day + 1))
    /\ tcd' = [tcd EXCEPT !.day = tcd.day + 1, !.pc = "listing"]
    /\ tcd_frame /\ tcd_goes_on
    /\ UNCHANGED <<localFiles, getLog>>

\* The loop test fails and USE_NETWORK_SWITCHING is off: the main thread
\* reaches the end of the script.
tcd_loop_ends ==
    /\ TcdAt("dates") /\ ~tcd_in_range(tcd.day)
    /\ ~cfg.use_network_switching
    /\ tcd' = [tcd EXCEPT !.pc = "end"]
    /\ status' = "done"
    /\ tcd_frame
    /\ UNCHANGED <<localFiles, localDirs, getLog, stack, dl, error>>

\* The loop test fails and USE_NETWORK_SWITCHING is on: the main thread
\* calls connect_to_wifi(DEFAULT_NETWORK) and reaches the end of the
\* script (lines 188-194).
tcd_switch_back ==
    /\ TcdAt("dates") /\ ~tcd_in_range(tcd.day)
    /\ cfg.use_network_switching
    /\ tcd' = [tcd EXCEPT !.network = "default", !.pc = "end"]
    /\ status' = "done"
    /\ tcd_frame
    /\ UNCHANGED <<localFiles, localDirs, getLog, stack, dl, error>>

\* download_datalog_files gets the folder's page and looks for .EDF links
\* (lines 89-95).
download_datalog_files ==
    /\ TcdAt("listing")
    /\ getLog' = Append(getLog, Get("dir", DayPath(tcd.day)))
    /\ tcd' = [tcd EXCEPT !.links = remote[tcd.day], !.j = 0, !.batch = {},
                          !.files_downloaded = remote[tcd.day] > 0,
                          !.pc = IF remote[tcd.day] > 0 THEN "threads" ELSE "after"]
    /\ tcd_frame /\ tcd_goes_on
    /\ UNCHANGED <<localFiles, localDirs>>

\* requests.get of the folder's page raises: nothing catches it.
tcd_listing_unreachable ==
    /\ TcdAt("listing")
    /\ getLog' = Append(getLog, Get("dir", DayPath(tcd.day)))
    /\ Raise("ConnectionError", "dir", DayPath(tcd.day))
    /\ tcd_frame
    /\ UNCHANGED <<localFiles, localDirs, tcd>>

\* A thread that has not returned from download_file.
Alive(t) == tcd.threads[t] # "finished"
AliveThreads == {t \in DOMAIN tcd.threads : Alive(t)}

\* The loop over the links starts a thread for the next .EDF link and,
\* with ThreadLimit threads in its list, goes to join them
\* (lines 96-105).
thread_start ==
    /\ TcdAt("threads") /\ tcd.j < tcd.links
    /\ LET t == <<tcd.day, tcd.j + 1>>
       IN  tcd' = [tcd EXCEPT !.j = tcd.j + 1,
                              !.threads = (t :> "started") @@ tcd.threads,
                              !.batch = tcd.batch \cup {t},
                              !.pc = IF Cardinality(tcd.batch) + 1 >= ThreadLimit
                                     THEN "join" ELSE "threads"]
    /\ tcd_frame /\ tcd_goes_on
    /\ UNCHANGED <<localFiles, localDirs, getLog>>

\* [t.join() for t in threads] returns when every thread of the list has
\* ended; the list is emptied (lines 106-107).
threads_join ==
    /\ TcdAt("join")
    /\ \A t \in tcd.batch : ~Alive(t)
    /\ tcd' = [tcd EXCEPT !.batch = {}, !.pc = "threads"]
    /\ tcd_frame /\ tcd_goes_on
    /\ UNCHANGED <<localFiles, localDirs, getLog>>

\* The loop over the links is through: return True, with the threads
\* still in the list left to themselves (line 109).
download_datalog_files_return ==
    /\ TcdAt("threads") /\ tcd.j = tcd.links
    /\ tcd' = [tcd EXCEPT !.pc = "after"]
    /\ tcd_frame /\ tcd_goes_on
    /\ UNCHANGED <<localFiles, localDirs, getLog>>

\* The test of line 180 with its second half left out.
remove_folder_when_empty(files_downloaded, include_empty) == ~files_downloaded

\* The test of line 180.
remove_folder(files_downloaded, include_empty) ==
    ~files_downloaded /\ ~include_empty

\* os.rmdir(target_path): it removes an empty folder and raises OSError
\* on one with a file in it.
tcd_rmdir ==
    /\ TcdAt("after")
    /\ remove_folder(tcd.files_downloaded, cfg.include_empty)
    /\ IF \E p \in DOMAIN localFiles : IsPrefix(DayPath(tcd.day), p)
       THEN /\ Raise("OSError", "rmdir", DayPath(tcd.day))
            /\ UNCHANGED <<localDirs, tcd>>
       ELSE /\ localDirs' = localDirs \ {DayPath(tcd.day)}
            /\ tcd' = [tcd EXCEPT !.removed = @ \cup {DayPath(tcd.day)},
                                  !.pc = "dates"]
            /\ tcd_goes_on
    /\ tcd_frame
    /\ UNCHANGED <<localFiles, getLog>>

\* print('<date> complete.') (lines 184-185).
tcd_complete ==
    /\ TcdAt("after")
    /\ ~remove_folder(tcd.files_downloaded, cfg.include_empty)
    /\ tcd' = [tcd EXCEPT !.complete = @ \cup {tcd.day}, !.pc = "dates"]
    /\ tcd_frame /\ tcd_goes_on
    /\ UNCHANGED <<localFiles, localDirs, getLog>>

\* ---- download_file in a thread (lines 80-85)
\* The thread's requests.get and open(target_path, 'wb').  (A thread is
\* started only for a folder that is new or with OVERWRITE_EXISTING_FILES
\* on, so the test of line 81 holds.)  getLog has the requests of the
\* main thread; a thread's request shows in its state.
thread_open ==
    \E t \in DOMAIN tcd.threads :
        /\ tcd.threads[t] = "started" /\ tcd_fetches(EdfPath(t))
        /\ localFiles' = (EdfPath(t) :> File(Now, Body("card", 0))) @@ localFiles
        /\ tcd' = [tcd EXCEPT !.threads[t] = "writing"]
        /\ tcd_frame /\ tcd_goes_on
        /\ UNCHANGED <<localDirs, getLog>>

\* The thread writes the chunks and returns.
thread_writes ==
    \E t \in DOMAIN tcd.threads :
        /\ tcd.threads[t] = "writing"
        /\ localFiles' = [localFiles EXCEPT ![EdfPath(t)] =
                              File(Now, Body("card", MaxChunks))]
        /\ tcd' = [tcd EXCEPT !.threads[t] = "finished"]
        /\ tcd_frame /\ tcd_goes_on
        /\ UNCHANGED <<localDirs, getLog>>

TcdNext ==
    \/ tcd_connect_to_wifi
    \/ tcd_static_download
    \/ tcd_static_no_directory
    \/ tcd_static_kept
    \/ tcd_skip_existing
    \/ create_directory
    \/ tcd_loop_ends
    \/ tcd_switch_back
    \/ download_datalog_files
    \/ tcd_listing_unreachable
    \/ thread_start
    \/ threads_join
    \/ download_datalog_files_return
    \/ tcd_rmdir
    \/ tcd_complete
    \/ thread_open
    \/ thread_writes

TcdSpec == TcdInit /\ [][TcdNext]_vars

\* ================================================================ claims
\* The listing line of the file a query names.
RowOf(query) ==
    LET rows == remote[SubSeq(query, 1, Len(query) - 1)]
    IN  rows[CHOOSE i \in 1..Len(rows) :
                 rows[i].href = "download" /\ rows[i].target = query]

Decided == decision # NoDecision
IfRemoteNewer == ~cfg.overwrite /\ ~cfg.keep_old
Downloads == {i \in 1..Len(getLog) : getLog[i].what = "download"}
Listed == {getLog[i].target : i \in {k \in 1..Len(getLog) : getLog[k].what = "dir"}}

\* C1: a run that follows a completed run, both with overwrite off and
\* keep_old off, sends no download request, leaves every local file as it
\* found it and skips every file it looks at.
C1_SecondRunDownloadsNothing ==
    (runNo >= 2 /\ prevStatus = "done" /\ IfRemoteNewer)
        => /\ Downloads = {}
           /\ localFiles = fsAtStart
           /\ Decided => decision.outcome = "skipped"

\* The second run has ended after looking at every file, and the first one
\* had fetched some.
C1_Witness ==
    /\ runNo = 2 /\ prevStatus = "done" /\ IfRemoteNewer /\ status = "done"
    /\ Cardinality(processed) >= 3
    /\ \E p \in DOMAIN localFiles : localFiles[p].body = Body("card", MaxChunks)

\* C2: with overwrite off and keep_old off a file is fetched if and only
\* if it is missing locally or the card's date is later than the local
\* modification time; a missing file is fetched even without a date.
C2_FetchedIffMissingOrNewer ==
    (Decided /\ IfRemoteNewer)
        => (decision.fetch <=>
               \/ ~decision.already_exists
               \/ /\ StampOf(RowOf(decision.query).line) # <<>>
                  /\ Epoch(StampOf(RowOf(decision.query).line)) > decision.mtime)

\* A path in or below a daily folder of DATALOG dated before --start_from.
BeforeStart(path) ==
    /\ Len(path) >= 2 /\ path[1] = "DATALOG"
    /\ date_of(path[2]) # 0 /\ date_of(path[2]) < cfg.start_from

\* C3: with a start date set, no daily folder of DATALOG dated before it
\* is created locally or listed, and nothing in it is downloaded.
C3_EarlierFoldersSkipped ==
    cfg.start_from # 0
        => /\ \A p \in made \cup processed : ~BeforeStart(p)
           /\ \A i \in 1..Len(getLog) : ~BeforeStart(getLog[i].target)

\* A row whose name is in the configured ignore set or starts with a dot.
Ignored(row) == row.text \in cfg.ignore \/ startswith_dot(row.text)

\* C4: for a listing row whose name is ignored, no download request is
\* sent for it, the directory it links to is not listed (unless it is the
\* listed directory or one above it, which the walk has come through) and
\* nothing of its name is created in the listed directory.
C4_IgnoredNeverFetched ==
    \A url \in DOMAIN remote : \A i \in 1..Len(remote[url]) :
        LET row == remote[url][i]
        IN  Ignored(row)
            => /\ \A k \in 1..Len(getLog) :
                      getLog[k].target = row.target
                          => getLog[k].what = "dir" /\ IsPrefix(row.target, url)
               /\ (url \o <<row.text>>) \notin made \cup processed

\* A body that is whole: a stale copy, or all the blocks of the card's file.
Complete(f) == f.body.blocks = MaxChunks

\* C5: once a download has failed or was interrupted, every local file is
\* whole.
C5_NoPartialFileAfterFailure ==
    (status = "raised" /\ error.what = "download")
        => \A p \in DOMAIN localFiles : Complete(localFiles[p])

\* The directories of the card that are not ignored, and the local paths
\* of the files list_dir reports in them.
ExpectedDirs ==
    {url \in DOMAIN remote :
        \A i \in 1..Len(url) :
            ~(url[i] \in ignore_list(cfg) \/ startswith_dot(url[i]))}
FilesIn(url) ==
    {url \o <<files_of(remote[url], cfg)[i].name>> :
        i \in 1..Len(files_of(remote[url], cfg))}

\* A download that failed for good, before any byte was written.
FileFailed ==
    /\ status = "raised" /\ error.what = "download"
    /\ error.type \in {"HTTPError", "ConnectionError"}

\* C6: a file's failed download does not keep the run from listing every
\* directory and processing every file of the card.
C6_FileFailureIsolated ==
    FileFailed
        => \A url \in ExpectedDirs : url \in Listed /\ FilesIn(url) \subseteq processed

\* C7: a listing page without a <pre> block costs only its own subtree:
\* every directory outside it is listed and its files are processed.
C7_DirFailureIsolated ==
    (status = "raised" /\ error.type = "AttributeError")
        => \A url \in ExpectedDirs :
               ~IsPrefix(error.target, url)
                   => url \in Listed /\ FilesIn(url) \subseteq processed

\* C8: after a download has succeeded for a line that carries a date, the
\* local file's modification time is that date.
C8_TimestampRoundTrip ==
    (Decided /\ decision.outcome = "written"
        /\ StampOf(RowOf(decision.query).line) # <<>>)
        => localFiles[decision.path].mtime
               = Epoch(StampOf(RowOf(decision.query).line))

\* A file whose line has blank-padded date fields has been downloaded.
C8_Witness ==
    /\ Decided /\ decision.outcome = "written"
    /\ RowOf(decision.query).line = LinePadded
    /\ localFiles[decision.path].mtime = mktime(2023, 8, 19, 8, 30, 0)

\* C9: with keep_old set, a file that exists when download_file is called
\* is not requested, and no file that existed when the run started is
\* changed, whatever overwrite and the two dates are.
C9_KeepOldNeverTouches ==
    cfg.keep_old
        => /\ \A p \in DOMAIN fsAtStart :
                  p \in DOMAIN localFiles /\ localFiles[p] = fsAtStart[p]
           /\ (Decided /\ decision.already_exists)
                  => ~decision.fetch /\ dl.phase = "idle"

\* keep_old and overwrite are both set, the local copy is older than the
\* card's file, and download_file has skipped it.
C9_Witness ==
    /\ cfg.keep_old /\ cfg.overwrite
    /\ Decided /\ decision.already_exists
    /\ decision.mtime < decision.file_ts
    /\ decision.outcome = "skipped"

\* C10: a file given up as failed has been retried exactly as often as
\* the retries option says.
C10_RetriedExactlyMaxRetries ==
    FileFailed => decision.retried = cfg.retries

\* The requests of this run that asked for the listing of url.
ListingRequests(url) ==
    {i \in 1..Len(getLog) : getLog[i] = Get("dir", url)}

\* The run was ended by a listing request that could not be sent or
\* answered.
ListingFailed ==
    /\ status = "raised" /\ error.what = "dir"
    /\ error.type = "ConnectionError"

\* C11: a directory whose listing is given up for a transport error has
\* been requested once and then retried as often as the retries option
\* says, like a file.
C11_ListingRetriedLikeFiles ==
    ListingFailed
        => Cardinality(ListingRequests(error.target)) = 1 + cfg.retries

\* C13: no request waits without a limit: a run is never left inside a
\* fetch that cannot return, also when the card has stopped answering.
C13_RunNeverStalls ==
    status = "running" => dl.phase # "blocked"

\* The links of one kind ('download' or 'dir') that list_dir keeps of the
\* listing of url, in the order of the page.
KeptLinks(url, kind) ==
    LET sel == SelectSeq(remote[url], LAMBDA r : kept(r, cfg) /\ r.href = kind)
    IN  [i \in 1..Len(sel) |-> sel[i].target]

\* The local paths of the files the listing of url links to.
KeptFilePaths(url) ==
    {url \o <<link_text(remote[url][i])>> :
        i \in {k \in 1..Len(remote[url]) :
                  kept(remote[url][k], cfg) /\ remote[url][k].href = "download"}}

IsSuffix(a, b) ==
    Len(a) <= Len(b) /\ a = SubSeq(b, Len(b) - Len(a) + 1, Len(b))

\* What a call of recursive_traversal has yet to do.
FilesLeft(f) == [i \in 1..Len(f.files) |-> f.files[i].query]
DirsLeft(f) == [i \in 1..Len(f.dirs) |-> f.dirs[i].href]

\* C15: in every directory visited the files are taken in the order of
\* the listing and the subdirectories in the order of the listing, and no
\* subdirectory is created or listed before the last file of the
\* directory has been dealt with.
C15_FilesBeforeDirs ==
    /\ \A k \in 1..Len(stack) :
          LET f == stack[k]
          IN  f.pc # "list_dir"
              => /\ IsSuffix(FilesLeft(f), KeptLinks(f.url, "download"))
                 /\ IsSuffix(DirsLeft(f), KeptLinks(f.url, "dir"))
                 /\ (f.pc = "check_dirs"
                       \/ Len(f.dirs) < Len(KeptLinks(f.url, "dir"))
                       \/ k < Len(stack))
                        => f.files = <<>> /\ (k = Len(stack) => dl.phase = "idle")
    /\ \A p \in (made \cup Listed) \ {ROOT} :
          KeptFilePaths(SubSeq(p, 1, Len(p) - 1)) \subseteq processed

\* The second daily folder is being listed: its parent has one
\* subdirectory behind it and none left, and the root's file was dealt
\* with before DATALOG was entered although its row comes after DATALOG's.
C15_Witness ==
    /\ Len(stack) = 3 /\ top.url = Day5 /\ top.pc = "check_files"
    /\ Len(top.files) = 1 /\ Day5 \o <<"B.EDF">> \in processed
    /\ stack[2].dirs = <<>>
    /\ <<"STR.edf">> \in processed

\* The device-side locator of the summary file and the two spellings of
\* its local name.
StrQuery == <<"STR.EDF">>
StrLower == <<"STR.edf">>
StrUpper == <<"STR.EDF">>

\* C18: the row named STR.EDF is stored as STR.edf and never as STR.EDF,
\* and the request for it names the file as the card does.
C18_StrStoredLowerCase ==
    /\ StrUpper \notin DOMAIN localFiles
    /\ StrUpper \notin processed
    /\ \A i \in Downloads : getLog[i].target # StrLower
    /\ (Decided /\ decision.query = StrQuery) => decision.path = StrLower
    /\ (Decided /\ decision.path = StrLower) => decision.query = StrQuery
    /\ (dl.phase # "idle" /\ dl.file_path = StrLower) => dl.url = StrQuery

\* STR.EDF has been requested under its card-side name and written to
\* STR.edf.
C18_Witness ==
    /\ Decided /\ decision.query = StrQuery /\ decision.outcome = "written"
    /\ StrLower \in DOMAIN localFiles /\ localFiles[StrLower].body.of = "card"
    /\ \E i \in Downloads : getLog[i].target = StrQuery

\* C20: main() calls disconnect_from_wifi exactly once, after run() has
\* ended and however it ended, and a run the user cancels at the prompt
\* has sent no request.
C20_DisconnectOnceOnEveryPath ==
    /\ wifi.disconnects = IF wifi.exited THEN 1 ELSE 0
    /\ wifi.exited => status \in {"done", "raised"}
    /\ (status = "raised" /\ error.what = "input")
          => getLog = <<>> /\ made = {} /\ processed = {}

\* The user has cancelled at the prompt, the process has ended and
\* disconnect_from_wifi was called.
C20_Witness ==
    /\ status = "raised" /\ error.type = "SystemExit" /\ error.what = "input"
    /\ wifi.exited /\ wifi.disconnects = 1

\* The requests a run that has ended tells its user about: those with an
\* error line on the console, and the one the exception that ended it
\* names, by its URL or by the file it was for.
Reported ==
    gen.printed
        \cup (IF status = "raised"
              THEN {Get("dir", error.target), Get("download", error.target)}
              ELSE {})

\* C14: when a run has ended, every listing and every file whose fetch
\* failed is among what the run reports.
C14_EveryFailureReported ==
    status \in {"done", "raised"} => gen.failed \subseteq Reported

\* The requests a run sends are GETs of a listing or of a file.
OnlyGets == \A i \in 1..Len(getLog) : getLog[i].what \in {"dir", "download"}

\* C12 as stated: no run deletes a local file or a local directory, and
\* every request is a GET.
C12_NeverDeletes ==
    /\ DOMAIN fsAtStart \subseteq DOMAIN localFiles
    /\ tcd.dirsAtStart \subseteq localDirs
    /\ tcd.removed = {}
    /\ OnlyGets

\* C12: no run deletes a local file and every request is a GET; the one
\* removal is transferCardData's os.rmdir of a daily folder, made only
\* with INCLUDE_EMPTY_FOLDERS off, for a date whose page has no .EDF link,
\* on the folder it has just ensured and only when that folder is empty.
C12_DeletesOnlyEmptyDayFolder ==
    /\ DOMAIN fsAtStart \subseteq DOMAIN localFiles
    /\ OnlyGets
    /\ (tcd.dirsAtStart \ tcd.removed) \subseteq localDirs
    /\ tcd.removed # {} => ~cfg.include_empty
    /\ \A p \in tcd.removed :
          /\ \E d \in 1..tcd.day : p = DayPath(d) /\ remote[d] = 0
          /\ \A q \in DOMAIN fsAtStart \cup DOMAIN localFiles : ~IsPrefix(p, q)

\* The script has ended after removing the folder of a day without data
\* and fetching the files of another day.
C12_Witness ==
    /\ tcd.pc = "end"
    /\ tcd.removed # {}
    /\ DOMAIN tcd.threads # {}

\* C16: once '<date> complete.' is printed for a folder, every thread
\* started for it has written its file and returned.
C16_CompleteMeansWritten ==
    \A d \in tcd.complete :
        \A t \in DOMAIN tcd.threads : t[1] = d => ~Alive(t)

\* C17: at most four download threads are alive at any moment, over all
\* daily folders.
C17_AtMostFourThreads ==
    Cardinality(AliveThreads) <= ThreadLimit

\* The directory a path is in.
dirname(path) == SubSeq(path, 1, Len(path) - 1)

\* C19: a file is opened for writing only in a directory that exists:
\* every local file has its directory, and no open has failed for want of
\* one.
C19_ParentExistsBeforeWrite ==
    /\ \A p \in DOMAIN localFiles \ {ROOT} : dirname(p) \in localDirs
    /\ (status = "raised" /\ error.what = "open")
          => dirname(error.target) \in localDirs

\* The static files loop is through.
StaticDone == tcd.pc # "none" /\ tcd.k > Len(StaticFiles)

\* C21: once the static files loop is through, each of the four static
\* files has been requested in this run and its local copy is the body
\* the card sent, whatever OVERWRITE_EXISTING_FILES is and whether or not
\* a copy was there.
C21_StaticAlwaysReplaced ==
    StaticDone
        => \A k \in 1..Len(StaticFiles) :
              /\ \E i \in 1..Len(getLog) :
                    getLog[i] = Get("download", <<StaticFiles[k]>>)
              /\ <<StaticFiles[k]>> \in DOMAIN localFiles
              /\ localFiles[<<StaticFiles[k]>>].body.of = "card"

\* The daily folders this run has asked the card for or made locally, as
\* days before today.
DaysTouched ==
    {d \in 1..Len(DayNames) :
        \/ \E i \in 1..Len(getLog) : getLog[i] = Get("dir", DayPath(d))
        \/ DayPath(d) \in localDirs \ tcd.dirsAtStart}

\* C22: a daily folder is listed or created only for a date that is not
\* earlier than the start date the script computed.
C22_NoFolderBeforeStartDate ==
    tcd.pc # "none" => \A d \in DaysTouched : not_before_start(d)

\* C23: a file that an interrupted run left with part of its body is
\* whole, with the card's content, once a later run with overwrite off
\* and keep_old off has completed.
C23_InterruptedFileConverges ==
    (runNo >= 2 /\ status = "done" /\ IfRemoteNewer)
        => \A p \in DOMAIN fsAtStart :
              ~Complete(fsAtStart[p])
                  => /\ p \in DOMAIN localFiles
                     /\ localFiles[p].body = Body("card", MaxChunks)

\* C24: no local file holds the body of a response with an error status:
\* a file is created or replaced only from a successful response.
C24_NoErrorBodyStored ==
    \A p \in DOMAIN localFiles : localFiles[p].body.of # "error page"

\* C25: with USE_NETWORK_SWITCHING on, once the main thread has switched
\* back to the default network, no download thread of the run is still
\* alive.
C25_SwitchBackAfterAllThreads ==
    (cfg.use_network_switching /\ tcd.pc = "end" /\ tcd.network = "default")
        => AliveThreads = {}

\* recursive_traversal was called and has ended with every listing it
\* asked for answered and read: it returned, or a download ended it.
TraversalEnded ==
    /\ status \in {"done", "raised"}
    /\ getLog # <<>>
    /\ status = "raised" => error.what = "download"

\* C26: no directory is listed twice, and when the traversal has ended
\* with all its listings answered, every directory of the card that is
\* not ignored has been listed exactly once and exists at the local path
\* of the same name.
C26_EachDirectoryListedOnce ==
    /\ \A url \in DOMAIN remote : Cardinality(ListingRequests(url)) <= 1
    /\ TraversalEnded
          => \A url \in ExpectedDirs :
                Cardinality(ListingRequests(url)) = 1 /\ url \in localDirs

====
